---- MODULE Spec2Model ----
(***************************************************************************)
(* Model of app/main.py of yt-transcript-server: the /v1/transcript        *)
(* handler (api_transcript) with its fallback policy, the SRT formatter    *)
(* (to_srt, _format_ts) and the rate-limit heuristic                       *)
(* (check_scraping_block).                                                 *)
(*                                                                         *)
(* Strings that the code inspects character by character (error messages,  *)
(* cue texts, SRT output) are sequences of one-character strings.  Times   *)
(* are integers counting ticks of 0.2 ms, a resolution at which the        *)
(* floating-point operations of _format_ts are exact and round() never     *)
(* meets a tie.                                                            *)
(***************************************************************************)
EXTENDS Integers, Sequences, FiniteSets, TLC

VARIABLES
    pc,              \* position of the handler
    lang,            \* the raw `lang` query parameter, as its comma-separated segments
    format,          \* query parameter
    prefer,          \* query parameter
    allowTranslate,  \* query parameter
    debug,           \* query parameter
    langs,           \* parsed language list (line 89)
    scrapingBlocked, \* local flag (line 90)
    tl,              \* the catalog returned by list_transcripts (line 103)
    transcript,      \* the resolved track, or None (lines 111-133)
    items,           \* the cue list fetched / given to to_srt
    resp,            \* how the request ended
    calls,           \* history: the provider calls made so far, with their outcome
    srt,             \* result of to_srt
    sec,             \* argument of _format_ts, in ticks
    ts               \* result of _format_ts

vars == <<pc, lang, format, prefer, allowTranslate, debug, langs, scrapingBlocked,
          tl, transcript, items, resp, calls, srt, sec, ts>>

(***************************************************************************)
(* Bounds                                                                  *)
(***************************************************************************)
MaxSegs == 2       \* comma-separated segments in `lang`
MaxTracks == 2     \* tracks in a catalog
MaxCues == 2       \* cues in a list given to to_srt
MaxTextLen == 2    \* characters in a cue text
MaxTick == 10000   \* sub-second/second offsets tried for _format_ts, in ticks

None == "None"

(***************************************************************************)
(* Character strings                                                       *)
(***************************************************************************)
SP == " "
NL == "\n"

Upper == <<"A","B","C","D","E","F","G","H","I","J","K","L","M",
           "N","O","P","Q","R","S","T","U","V","W","X","Y","Z">>
LowerOf == <<"a","b","c","d","e","f","g","h","i","j","k","l","m",
             "n","o","p","q","r","s","t","u","v","w","x","y","z">>

LowerChar(c) ==
    IF \E i \in 1..Len(Upper) : Upper[i] = c
    THEN LowerOf[CHOOSE i \in 1..Len(Upper) : Upper[i] = c]
    ELSE c

\* str.lower()
Lower(s) == [i \in 1..Len(s) |-> LowerChar(s[i])]

\* `sub in s`
Contains(sub, s) ==
    \E i \in 0..(Len(s) - Len(sub)) :
        \A j \in 1..Len(sub) : s[i + j] = sub[j]

IsSpace(c) == c \in {SP, NL}

RECURSIVE LStrip(_)
LStrip(s) == IF s # <<>> /\ IsSpace(Head(s)) THEN LStrip(Tail(s)) ELSE s

RECURSIVE RStrip(_)
RStrip(s) ==
    IF s # <<>> /\ IsSpace(s[Len(s)]) THEN RStrip(SubSeq(s, 1, Len(s) - 1)) ELSE s

\* str.strip()
Strip(s) == LStrip(RStrip(s))

\* str.replace(a, b) for one-character a and b
Replace(s, a, b) == [i \in 1..Len(s) |-> IF s[i] = a THEN b ELSE s[i]]

\* sep.join(lines)
RECURSIVE Join(_, _)
Join(lines, sep) ==
    IF lines = <<>> THEN <<>>
    ELSE IF Len(lines) = 1 THEN lines[1]
    ELSE lines[1] \o sep \o Join(Tail(lines), sep)

DigitChar(d) == <<"0","1","2","3","4","5","6","7","8","9">>[d + 1]

\* str(n) for n >= 0
RECURSIVE Str(_)
Str(n) == IF n < 10 THEN <<DigitChar(n)>> ELSE Str(n \div 10) \o <<DigitChar(n % 10)>>

\* f"{n:0w}": zero-padded to a minimum width of w
RECURSIVE ZeroPad(_, _)
ZeroPad(d, w) == IF Len(d) >= w THEN d ELSE ZeroPad(<<"0">> \o d, w)

Fmt(n, w) == ZeroPad(Str(n), w)

(***************************************************************************)
(* _format_ts (lines 34-39)                                                *)
(***************************************************************************)
TicksPerSec == 5 * 1000

\* round(num/den) for num >= 0, den > 0: Python rounds a tie to the even integer
Round(num, den) ==
    LET q == num \div den
        r == num % den
    IN  IF 2 * r < den THEN q
        ELSE IF 2 * r > den THEN q + 1
        ELSE IF q % 2 = 0 THEN q ELSE q + 1

TsHours(t) == t \div (3600 * TicksPerSec)
TsMinutes(t) == (t % (3600 * TicksPerSec)) \div (60 * TicksPerSec)
TsSeconds(t) == (t % (60 * TicksPerSec)) \div TicksPerSec
TsMillis(t) == Round((t - (t \div TicksPerSec) * TicksPerSec) * 1000, TicksPerSec)

_format_ts(t) ==
    Fmt(TsHours(t), 2) \o <<":">> \o Fmt(TsMinutes(t), 2) \o <<":">>
        \o Fmt(TsSeconds(t), 2) \o <<",">> \o Fmt(TsMillis(t), 3)

(***************************************************************************)
(* to_srt (lines 42-54)                                                    *)
(***************************************************************************)
\* it.get(key, default): a cue is a record that may lack keys
Get(it, key, default) == IF key \in DOMAIN it THEN it[key] ELSE default

\* (it.get("text", "") or "").replace("\n", " ").strip() or " "
CueText(it) ==
    LET t == Strip(Replace(Get(it, "text", <<>>), NL, SP))
    IN  IF t = <<>> THEN <<SP>> ELSE t

Arrow == <<SP, "-", "-", ">", SP>>

CueLines(i, it) ==
    LET start == Get(it, "start", 0)
        end == start + Get(it, "duration", 0)
    IN  << Str(i),
           _format_ts(start) \o Arrow \o _format_ts(end),
           CueText(it),
           <<>> >>

RECURSIVE SrtLines(_, _)
SrtLines(its, i) ==
    IF i > Len(its) THEN <<>> ELSE CueLines(i, its[i]) \o SrtLines(its, i + 1)

to_srt(its) == Strip(Join(SrtLines(its, 1), <<NL>>)) \o <<NL>>

(***************************************************************************)
(* check_scraping_block (lines 57-66) and _detail (lines 69-75)            *)
(***************************************************************************)
Tok429 == <<"4","2","9">>
TokTooMany == <<"t","o","o"," ","m","a","n","y"," ","r","e","q","u","e","s","t","s">>
Tok403 == <<"4","0","3">>
TokForbidden == <<"f","o","r","b","i","d","d","e","n">>

check_scraping_block(exc) ==
    LET msg == Lower(exc.msg)
    IN  IF Contains(Tok429, msg) \/ Contains(TokTooMany, msg) THEN TRUE
        ELSE IF Contains(Tok403, msg) \/ Contains(TokForbidden, msg) THEN TRUE
        ELSE FALSE

NoExc == [type |-> None, msg |-> <<>>]

\* The detail string, kept as the parts the code concatenates.
_detail(user_msg, exc, dbg, blocked) ==
    [ msg     |-> user_msg,
      blocked |-> blocked,
      exc     |-> IF dbg /\ exc # NoExc THEN exc ELSE NoExc ]

(***************************************************************************)
(* The provider (youtube_transcript_api), an opaque collaborator: what it  *)
(* may answer to each call.                                                *)
(***************************************************************************)
LangCodes == {"en", "de"}

\* A comma-separated segment of `lang`, and what x.strip() makes of it.
Segments == {"en", " de", ""}
StripSeg(x) == CASE x = " de" -> "de" [] OTHER -> x

Track(code, gen) == [language_code |-> code, is_generated |-> gen]
NoTrack == Track(None, FALSE)
Tracks == {Track(c, g) : c \in LangCodes, g \in BOOLEAN}

SeqsUpTo(S, n) == UNION {[1..k -> S] : k \in 0..n}
Range(f) == {f[i] : i \in DOMAIN f}

Catalogs == SeqsUpTo(Tracks, MaxTracks)

Msg429 == <<"H","T","T","P"," ","4","2","9">>
MsgTooMany == <<"T","o","o"," ","M","a","n","y"," ","R","e","q","u","e","s","t","s">>
MsgForbidden == <<"4","0","3"," ","F","O","R","B","I","D","D","E","N">>
MsgPlain == <<"n","o"," ","c","a","p","t","i","o","n","s">>
Messages == {Msg429, MsgTooMany, MsgForbidden, MsgPlain}

Exc(type, msg) == [type |-> type, msg |-> msg]
Excs(types) == {Exc(t, m) : t \in types, m \in Messages}

\* A sample of what fetch/get_transcript return.
SampleItems ==
    << [text |-> <<"h","i">>, start |-> 0, duration |-> 7500],
       [text |-> <<>>, start |-> 7500, duration |-> 2500] >>

\* find_manually_created_transcript / find_generated_transcript: the track of the
\* first requested language that the catalog holds in that kind, NoTrack if none.
RECURSIVE FindTrack(_, _, _)
FindTrack(catalog, codes, gen) ==
    IF codes = <<>> THEN NoTrack
    ELSE LET hits == {i \in 1..Len(catalog) :
                        /\ catalog[i].language_code = Head(codes)
                        /\ catalog[i].is_generated = gen}
         IN  IF hits # {}
             THEN catalog[CHOOSE i \in hits : \A j \in hits : i <= j]
             ELSE FindTrack(catalog, Tail(codes), gen)

\* One provider call in the history: its outcome (exc = NoExc when it returned),
\* the track it returned and, for translate, the track it was called on.
Call(op, exc, track, base) ==
    [op |-> op, ok |-> (exc = NoExc), exc |-> exc, track |-> track, base |-> base]

(***************************************************************************)
(* Responses                                                               *)
(***************************************************************************)
NoDetail == [msg |-> "", blocked |-> FALSE, exc |-> NoExc]

NoResp ==
    [ kind |-> "none", status |-> 0, detail |-> NoDetail, lang |-> None,
      hasFlags |-> FALSE, isTranslated |-> FALSE, isGenerated |-> FALSE,
      scrapingBlocked |-> FALSE, exc |-> NoExc ]

\* raise HTTPException(status_code=status, detail=detail)
HTTPException(status, detail) ==
    [NoResp EXCEPT !.kind = "HTTPException", !.status = status, !.detail = detail,
                   !.scrapingBlocked = detail.blocked]

\* An exception that leaves the handler: the framework answers 500 by itself.
Unhandled(exc) == [NoResp EXCEPT !.kind = "unhandled", !.status = 500, !.exc = exc]

\* The framework's rejection of a query parameter (pattern=..., lines 83-85).
ValidationError == [NoResp EXCEPT !.kind = "validation", !.status = 422]

\* Response(content=to_srt(items), media_type="text/plain; charset=utf-8")
SrtResponse == [NoResp EXCEPT !.kind = "srt", !.status = 200]

\* line 96
DirectJson(codes, blocked) ==
    [NoResp EXCEPT !.kind = "json", !.status = 200, !.lang = codes[1],
                   !.scrapingBlocked = blocked]

\* lines 142-149
FallbackJson(codes, tr, blocked) ==
    [NoResp EXCEPT !.kind = "json", !.status = 200, !.lang = codes[1],
                   !.hasFlags = TRUE,
                   !.isTranslated = (tr.language_code # codes[1]),
                   !.isGenerated = tr.is_generated,
                   !.scrapingBlocked = blocked]

\* lines 153-158: the handler's last except clause
OuterExcept(e, dbg) ==
    LET blocked == check_scraping_block(e)
    IN  IF blocked
        THEN HTTPException(429, _detail("Rate limited or blocked by YouTube.", e, dbg, blocked))
        ELSE HTTPException(500, _detail("Internal server error.", e, dbg, blocked))

\* lines 104-109: the except clauses around list_transcripts
ListExcept(e, dbg) ==
    LET blocked == check_scraping_block(e)
    IN  IF e.type \in {"TranscriptsDisabled", "VideoUnavailable"}
        THEN HTTPException(404, _detail("Transcript unavailable.", e, dbg, blocked))
        ELSE HTTPException(500,
                 _detail("Internal error while listing transcripts.", e, dbg, blocked))

\* line 138
NoTranscriptResponse(dbg, blocked) ==
    HTTPException(404, _detail("No transcript in requested languages.", NoExc, dbg, blocked))

\* Variant: the clause catches NoTranscriptFound only.
Swallowed_NotFoundOnly(e) == e.type = "NoTranscriptFound"

\* `except Exception:` (lines 117, 122, 134) catches every exception type
Swallowed(e) == TRUE

\* Variant: the manual lookup is made for prefer=manual only.
TriesManual_ManualOnly(p) == p = "manual"

\* prefer in ("manual", "any")  (line 114)
TriesManual(p) == p \in {"manual", "any"}

\* Variant: the generated lookup is made whatever prefer is.
TriesGenerated_Always(p) == p \in {"manual", "generated", "any"}

\* prefer in ("generated", "any")  (line 119)
TriesGenerated(p) == p \in {"generated", "any"}

\* langs = [x.strip() for x in lang.split(",") if x.strip()]  (line 89)
RECURSIVE ParseLangs(_)
ParseLangs(segs) ==
    IF segs = <<>> THEN <<>>
    ELSE IF StripSeg(Head(segs)) # ""
         THEN <<StripSeg(Head(segs))>> \o ParseLangs(Tail(segs))
         ELSE ParseLangs(Tail(segs))

(***************************************************************************)
(* GET /v1/transcript: api_transcript (lines 79-158)                       *)
(***************************************************************************)
Init ==
    /\ pc = "idle"
    /\ lang = <<>>
    /\ format = None
    /\ prefer = None
    /\ allowTranslate = FALSE
    /\ debug = FALSE
    /\ langs = <<>>
    /\ scrapingBlocked = FALSE
    /\ tl = <<>>
    /\ transcript = NoTrack
    /\ items = <<>>
    /\ resp = NoResp
    /\ calls = <<>>
    /\ srt = <<>>
    /\ sec = 0
    /\ ts = <<>>

Formats == {"json", "srt"}
Prefers == {"any", "manual", "generated"}

\* A `lang` string always splits into at least one segment.
LangInputs == SeqsUpTo(Segments, MaxSegs) \ {<<>>}

\* The query parameters pass validation; lines 89-90.
Request ==
    /\ pc = "idle"
    /\ \E segs \in LangInputs, f \in Formats, p \in Prefers,
          at \in BOOLEAN, dbg \in BOOLEAN :
          /\ lang' = segs
          /\ format' = f
          /\ prefer' = p
          /\ allowTranslate' = at
          /\ debug' = dbg
          /\ langs' = ParseLangs(segs)
    /\ scrapingBlocked' = FALSE
    /\ pc' = "direct"
    /\ UNCHANGED <<tl, transcript, items, resp, calls, srt, sec, ts>>

\* A `format` or `prefer` outside its pattern never reaches the handler.
RejectRequest ==
    /\ pc = "idle"
    /\ \E f \in Formats \cup {"xml"}, p \in Prefers \cup {"auto"} :
          /\ f \notin Formats \/ p \notin Prefers
          /\ format' = f
          /\ prefer' = p
    /\ resp' = ValidationError
    /\ pc' = "done"
    /\ UNCHANGED <<lang, allowTranslate, debug, langs, scrapingBlocked, tl, transcript,
                   items, calls, srt, sec, ts>>

DirectErrorTypes == {"TranscriptsDisabled", "VideoUnavailable", "Exception"}

\* What get_transcript(videoId, languages=codes) may do: return the cues of a track
\* in one of the requested languages, or raise.
DirectOutcomes(codes) ==
    {Call("get_transcript", NoExc, Track(c, g), NoTrack) : c \in Range(codes), g \in BOOLEAN}
        \cup {Call("get_transcript", e, NoTrack, NoTrack) : e \in Excs(DirectErrorTypes)}
        \cup {Call("get_transcript", Exc("NoTranscriptFound", m), NoTrack, NoTrack) :
                 m \in {MsgPlain, MsgForbidden}}

\* Lines 93-100 and 153-158.
DirectFetch ==
    /\ pc = "direct"
    /\ \E out \in DirectOutcomes(langs) :
          /\ calls' = Append(calls, out)
          /\ IF out.ok
             THEN /\ items' = SampleItems
                  /\ resp' = IF format = "json"
                             THEN DirectJson(langs, scrapingBlocked)
                             ELSE SrtResponse
                  /\ srt' = IF format = "json" THEN srt ELSE to_srt(SampleItems)
                  /\ pc' = "done"
                  /\ UNCHANGED scrapingBlocked
             ELSE IF out.exc.type = "NoTranscriptFound"
             THEN /\ pc' = "list"
                  /\ UNCHANGED <<items, resp, srt, scrapingBlocked>>
             ELSE /\ scrapingBlocked' = check_scraping_block(out.exc)
                  /\ resp' = OuterExcept(out.exc, debug)
                  /\ pc' = "done"
                  /\ UNCHANGED <<items, srt>>
    /\ UNCHANGED <<lang, format, prefer, allowTranslate, debug, langs, tl, transcript,
                   sec, ts>>

ListErrorTypes == {"TranscriptsDisabled", "VideoUnavailable", "Exception"}

\* Lines 102-111.
ListTranscripts ==
    /\ pc = "list"
    /\ \/ \E catalog \in Catalogs :
             /\ calls' = Append(calls, Call("list_transcripts", NoExc, NoTrack, NoTrack))
             /\ tl' = catalog
             /\ transcript' = NoTrack
             /\ pc' = "pick_manual"
             /\ UNCHANGED <<scrapingBlocked, resp>>
       \/ \E e \in Excs(ListErrorTypes) :
             /\ calls' = Append(calls, Call("list_transcripts", e, NoTrack, NoTrack))
             /\ scrapingBlocked' = check_scraping_block(e)
             /\ resp' = ListExcept(e, debug)
             /\ pc' = "done"
             /\ UNCHANGED <<tl, transcript>>
    /\ UNCHANGED <<lang, format, prefer, allowTranslate, debug, langs, items, srt, sec, ts>>

\* A lookup or a translation may also fail for a reason of the provider's own.
ProviderFaults == {NoExc, Exc("Exception", Msg429)}

\* What a find_*_transcript(codes) call raises: the provider's fault, or
\* NoTranscriptFound when the catalog has no such track.
LookupExc(fault, found) ==
    IF fault # NoExc THEN fault
    ELSE IF found = NoTrack THEN Exc("NoTranscriptFound", MsgPlain)
    ELSE NoExc

\* pick_transcript, lines 114-118.
FindManual ==
    /\ pc = "pick_manual"
    /\ IF TriesManual(prefer)
       THEN \E fault \in ProviderFaults :
               LET found == FindTrack(tl, langs, FALSE)
                   e == LookupExc(fault, found)
                   got == IF e = NoExc THEN found ELSE NoTrack
               IN  /\ calls' = Append(calls,
                          Call("find_manually_created_transcript", e, got, NoTrack))
                   /\ IF e = NoExc
                      THEN /\ transcript' = found
                           /\ pc' = "translate"
                           /\ UNCHANGED resp
                      ELSE IF Swallowed(e)
                      THEN /\ pc' = "pick_generated"
                           /\ UNCHANGED <<transcript, resp>>
                      ELSE /\ resp' = Unhandled(e)
                           /\ pc' = "done"
                           /\ UNCHANGED transcript
       ELSE /\ pc' = "pick_generated"
            /\ UNCHANGED <<calls, transcript, resp>>
    /\ UNCHANGED <<lang, format, prefer, allowTranslate, debug, langs, scrapingBlocked,
                   tl, items, srt, sec, ts>>

\* pick_transcript, lines 119-126.
FindGenerated ==
    /\ pc = "pick_generated"
    /\ IF TriesGenerated(prefer)
       THEN \E fault \in ProviderFaults :
               LET found == FindTrack(tl, langs, TRUE)
                   e == LookupExc(fault, found)
                   got == IF e = NoExc THEN found ELSE NoTrack
               IN  /\ calls' = Append(calls,
                          Call("find_generated_transcript", e, got, NoTrack))
                   /\ IF e = NoExc
                      THEN /\ transcript' = found
                           /\ pc' = "translate"
                           /\ UNCHANGED resp
                      ELSE IF Swallowed(e)
                      THEN /\ pc' = "translate"
                           /\ UNCHANGED <<transcript, resp>>
                      ELSE /\ resp' = Unhandled(e)
                           /\ pc' = "done"
                           /\ UNCHANGED transcript
       ELSE /\ pc' = "translate"
            /\ UNCHANGED <<calls, transcript, resp>>
    /\ UNCHANGED <<lang, format, prefer, allowTranslate, debug, langs, scrapingBlocked,
                   tl, items, srt, sec, ts>>

\* manual = [t for t in tl if not t.is_generated]  (line 131)
ManualTracks(catalog) == SelectSeq(catalog, LAMBDA t : ~t.is_generated)

\* base = manual[0] if manual else list(tl)[0]  (line 132), for a non-empty catalog
BaseTrack(catalog) ==
    IF ManualTracks(catalog) # <<>> THEN ManualTracks(catalog)[1] ELSE catalog[1]

IndexError == Exc("IndexError", <<"l","i","s","t"," ","i","n","d","e","x">>)

\* What base.translate(code) may do: return a track in the target language, or raise.
TranslateOutcomes(base, code) ==
    {Call("translate", NoExc, Track(code, g), base) : g \in BOOLEAN}
        \cup {Call("translate", e, NoTrack, base) : e \in ProviderFaults \ {NoExc}}

\* The exception left by the failed step, when the try block swallows it or not.
AfterTranslateExc(e) ==
    IF Swallowed(e)
    THEN /\ pc' = "resolve"
         /\ UNCHANGED <<transcript, resp>>
    ELSE /\ resp' = Unhandled(e)
         /\ pc' = "done"
         /\ UNCHANGED transcript

\* Lines 129-135.
TranslateFallback ==
    /\ pc = "translate"
    /\ IF transcript = NoTrack /\ allowTranslate
       THEN IF tl = <<>> \/ langs = <<>>
            THEN \* list(tl)[0] or langs[0] raises before the provider is called
                 /\ AfterTranslateExc(IndexError)
                 /\ UNCHANGED calls
            ELSE \E out \in TranslateOutcomes(BaseTrack(tl), langs[1]) :
                    /\ calls' = Append(calls, out)
                    /\ IF out.ok
                       THEN /\ transcript' = out.track
                            /\ pc' = "resolve"
                            /\ UNCHANGED resp
                       ELSE AfterTranslateExc(out.exc)
       ELSE /\ pc' = "resolve"
            /\ UNCHANGED <<calls, transcript, resp>>
    /\ UNCHANGED <<lang, format, prefer, allowTranslate, debug, langs, scrapingBlocked,
                   tl, items, srt, sec, ts>>

\* Lines 137-138.
NoTranscript ==
    /\ pc = "resolve"
    /\ transcript = NoTrack
    /\ resp' = NoTranscriptResponse(debug, scrapingBlocked)
    /\ pc' = "done"
    /\ UNCHANGED <<lang, format, prefer, allowTranslate, debug, langs, scrapingBlocked,
                   tl, transcript, items, calls, srt, sec, ts>>

FetchErrorTypes == {"Exception"}

\* What transcript.fetch() may do: return the cues, or raise.
FetchOutcomes(tr) ==
    {Call("fetch", NoExc, tr, NoTrack)}
        \cup {Call("fetch", e, tr, NoTrack) : e \in Excs(FetchErrorTypes)}

\* Lines 140-151.  These lines are inside the `except NoTranscriptFound` clause, so
\* the try statement's last `except Exception` clause does not cover them.
FetchCues ==
    /\ pc = "resolve"
    /\ transcript # NoTrack
    /\ \E out \in FetchOutcomes(transcript) :
          /\ calls' = Append(calls, out)
          /\ IF out.ok
             THEN /\ items' = SampleItems
                  /\ resp' = IF format = "json"
                             THEN IF langs = <<>>
                                  THEN Unhandled(IndexError)
                                  ELSE FallbackJson(langs, transcript, scrapingBlocked)
                             ELSE SrtResponse
                  /\ srt' = IF format = "json" THEN srt ELSE to_srt(SampleItems)
             ELSE /\ resp' = Unhandled(out.exc)
                  /\ UNCHANGED <<items, srt>>
    /\ pc' = "done"
    /\ UNCHANGED <<lang, format, prefer, allowTranslate, debug, langs, scrapingBlocked,
                   tl, transcript, sec, ts>>

Next ==
    \/ Request
    \/ RejectRequest
    \/ DirectFetch
    \/ ListTranscripts
    \/ FindManual
    \/ FindGenerated
    \/ TranslateFallback
    \/ NoTranscript
    \/ FetchCues

Spec == Init /\ [][Next]_vars

(***************************************************************************)
(* to_srt on its own: every cue list within the bounds                     *)
(***************************************************************************)
TextChars == {"a", SP, NL}
Texts == SeqsUpTo(TextChars, MaxTextLen)

\* 3661.5 s and 2.25 s, in ticks
SampleStart == 3661 * TicksPerSec + TicksPerSec \div 2
SampleDuration == 2 * TicksPerSec + TicksPerSec \div 4

Cues ==
    {[text |-> t, start |-> SampleStart, duration |-> SampleDuration] : t \in Texts}
        \cup {[text |-> t] : t \in Texts}
        \cup {[start |-> SampleStart, duration |-> SampleDuration]}

CueLists == SeqsUpTo(Cues, MaxCues)

InitSrt ==
    /\ pc = "srt_input"
    /\ items \in CueLists
    /\ lang = <<>>
    /\ format = None
    /\ prefer = None
    /\ allowTranslate = FALSE
    /\ debug = FALSE
    /\ langs = <<>>
    /\ scrapingBlocked = FALSE
    /\ tl = <<>>
    /\ transcript = NoTrack
    /\ resp = NoResp
    /\ calls = <<>>
    /\ srt = <<>>
    /\ sec = 0
    /\ ts = <<>>

ToSrt ==
    /\ pc = "srt_input"
    /\ srt' = to_srt(items)
    /\ pc' = "srt_done"
    /\ UNCHANGED <<lang, format, prefer, allowTranslate, debug, langs, scrapingBlocked,
                   tl, transcript, items, resp, calls, sec, ts>>

NextSrt == ToSrt

SpecSrt == InitSrt /\ [][NextSrt]_vars

(***************************************************************************)
(* _format_ts on its own: times around whole seconds, minutes and hours    *)
(***************************************************************************)
TsBases == {0, 59, 3599, 3661}
TsInputs == {b * TicksPerSec + t : b \in TsBases, t \in 0..MaxTick}

InitTs ==
    /\ pc = "ts_input"
    /\ sec \in TsInputs
    /\ items = <<>>
    /\ lang = <<>>
    /\ format = None
    /\ prefer = None
    /\ allowTranslate = FALSE
    /\ debug = FALSE
    /\ langs = <<>>
    /\ scrapingBlocked = FALSE
    /\ tl = <<>>
    /\ transcript = NoTrack
    /\ resp = NoResp
    /\ calls = <<>>
    /\ srt = <<>>
    /\ ts = <<>>

FormatTs ==
    /\ pc = "ts_input"
    /\ ts' = _format_ts(sec)
    /\ pc' = "ts_done"
    /\ UNCHANGED <<lang, format, prefer, allowTranslate, debug, langs, scrapingBlocked,
                   tl, transcript, items, resp, calls, srt, sec>>

NextTs == FormatTs

SpecTs == InitTs /\ [][NextTs]_vars

(***************************************************************************)
(* Properties                                                              *)
(***************************************************************************)
Done == pc = "done"

CallsOf(op) == {i \in 1..Len(calls) : calls[i].op = op}
Returned(op) == \E i \in CallsOf(op) : calls[i].ok
Raised(op) == \E i \in CallsOf(op) : ~calls[i].ok

CatalogObtained == Returned("list_transcripts")

\* A lookup or translation failed for a reason other than "no such track".
Faulted(op) == \E i \in CallsOf(op) : ~calls[i].ok /\ calls[i].exc.type # "NoTranscriptFound"

LastCall == calls[Len(calls)]

NoTranscriptMsg == "No transcript in requested languages."

Is404NoTranscript ==
    /\ resp.kind = "HTTPException"
    /\ resp.status = 404
    /\ resp.detail.msg = NoTranscriptMsg

\* C1: a request in which get_transcript, list_transcripts or fetch failed with a
\* message that check_scraping_block matches ends with HTTP 429.
C1_BlockedEndsWith429 ==
    (Done /\ \E i \in 1..Len(calls) :
                /\ calls[i].op \in {"get_transcript", "list_transcripts", "fetch"}
                /\ ~calls[i].ok
                /\ check_scraping_block(calls[i].exc))
        => resp.status = 429

\* C2: when get_transcript or list_transcripts raises TranscriptsDisabled or
\* VideoUnavailable, the request ends with HTTP 404 and that call is the last
\* provider call made.
C2_UnavailableEndsWith404 ==
    \A i \in 1..Len(calls) :
        (/\ calls[i].op \in {"get_transcript", "list_transcripts"}
         /\ calls[i].exc.type \in {"TranscriptsDisabled", "VideoUnavailable"})
            => /\ i = Len(calls)
               /\ Done
               /\ resp.kind = "HTTPException"
               /\ resp.status = 404

\* C3: in a successful JSON response, `lang` is the language code of the track
\* whose cues are returned.
C3_LangIsServedLanguage ==
    (Done /\ resp.kind = "json") => resp.lang = LastCall.track.language_code

ManualMatch == FindTrack(tl, langs, FALSE)
GeneratedMatch == FindTrack(tl, langs, TRUE)

\* C4: with prefer=any and a catalog holding both a manual and a generated track
\* in the requested languages, the manual track is the one resolved and fetched
\* and the generated lookup is not made, unless the manual lookup itself failed;
\* and a generated lookup under prefer=any always directly follows a manual lookup
\* that raised.
C4_ManualBeforeGenerated ==
    /\ (/\ pc \in {"translate", "resolve", "done"}
        /\ CatalogObtained
        /\ prefer = "any"
        /\ ManualMatch # NoTrack
        /\ GeneratedMatch # NoTrack
        /\ ~Faulted("find_manually_created_transcript"))
           => /\ transcript = ManualMatch
              /\ ~transcript.is_generated
              /\ CallsOf("find_generated_transcript") = {}
              /\ CallsOf("translate") = {}
              /\ \A i \in CallsOf("fetch") : calls[i].track = ManualMatch
    /\ prefer = "any"
           => \A i \in CallsOf("find_generated_transcript") :
                  /\ i > 1
                  /\ calls[i - 1].op = "find_manually_created_transcript"
                  /\ ~calls[i - 1].ok

C4_Witness ==
    /\ Done
    /\ prefer = "any"
    /\ ManualMatch # NoTrack
    /\ GeneratedMatch # NoTrack
    /\ Returned("find_manually_created_transcript")
    /\ Returned("fetch")
    /\ resp.kind = "json"
    /\ resp.isGenerated = FALSE

OnlyGenerated(catalog) ==
    /\ catalog # <<>>
    /\ \A i \in 1..Len(catalog) : catalog[i].is_generated

\* C5: with prefer=manual and a catalog of generated tracks only, the generated
\* lookup is never made; a track that is resolved is the one a translate call
\* returned; and with allowTranslate=false the request ends with the 404
\* "No transcript in requested languages.".
C5_ManualOnlyNeverServesGenerated ==
    (/\ CatalogObtained
     /\ prefer = "manual"
     /\ OnlyGenerated(tl))
        => /\ CallsOf("find_generated_transcript") = {}
           /\ transcript # NoTrack
                 => \E i \in CallsOf("translate") :
                        /\ calls[i].ok
                        /\ calls[i].track = transcript
                        /\ allowTranslate
           /\ \A i \in CallsOf("fetch") :
                 \E j \in CallsOf("translate") : calls[j].ok /\ calls[j].track = calls[i].track
           /\ (Done /\ ~allowTranslate) => Is404NoTranscript

C5_Witness ==
    /\ Done
    /\ prefer = "manual"
    /\ OnlyGenerated(tl)
    /\ GeneratedMatch # NoTrack
    /\ allowTranslate
    /\ Returned("translate")
    /\ Returned("fetch")
    /\ resp.kind = "json"

SplitAt(s) == {i \in 1..Len(s) : s[i] = NL}

\* s.split("\n")
RECURSIVE SplitLines(_)
SplitLines(s) ==
    IF SplitAt(s) = {} THEN <<s>>
    ELSE LET k == CHOOSE i \in SplitAt(s) : \A j \in SplitAt(s) : i <= j
         IN  <<SubSeq(s, 1, k - 1)>> \o SplitLines(SubSeq(s, k + 1, Len(s)))

EmptyText(it) == Strip(Replace(Get(it, "text", <<>>), NL, SP)) = <<>>

\* C6: in the output of to_srt, the text line of every cue whose text is empty
\* after newline collapsing and trimming is exactly one space, at any position.
C6_EmptyCueIsOneSpace ==
    pc = "srt_done"
        => \A i \in 1..Len(items) :
               EmptyText(items[i])
                   => /\ Len(SplitLines(srt)) >= 4 * (i - 1) + 3
                      /\ SplitLines(srt)[4 * (i - 1) + 3] = <<SP>>

\* C7: once the catalog is obtained, a failure of a lookup or of the translation
\* step is never what the request ends with: the request ends with a success, with
\* the failure of the cue fetch, or, when no track was resolved, with the 404
\* "No transcript in requested languages."; a failed manual lookup is followed by
\* the generated lookup when prefer allows it.
C7_SubStepFailuresSwallowed ==
    (Done /\ CatalogObtained)
        => /\ resp.kind = "HTTPException" => (Is404NoTranscript /\ transcript = NoTrack)
           /\ resp.kind = "unhandled" => (LastCall.op = "fetch" /\ resp.exc = LastCall.exc)
           /\ transcript = NoTrack => Is404NoTranscript
           /\ (Raised("find_manually_created_transcript") /\ prefer = "any")
                 => CallsOf("find_generated_transcript") # {}
           /\ (transcript = NoTrack /\ allowTranslate /\ tl # <<>> /\ langs # <<>>)
                 => CallsOf("translate") # {}

C7_Witness ==
    /\ Done
    /\ CatalogObtained
    /\ Faulted("find_manually_created_transcript")
    /\ Faulted("find_generated_transcript")
    /\ Faulted("translate")
    /\ Is404NoTranscript

IsDigit(c) == c \in {"0","1","2","3","4","5","6","7","8","9"}
DigitVal(c) == CHOOSE d \in 0..9 : DigitChar(d) = c

RECURSIVE Val(_)
Val(d) == IF d = <<>> THEN 0 ELSE 10 * Val(SubSeq(d, 1, Len(d) - 1)) + DigitVal(d[Len(d)])

\* C8: _format_ts yields HH:MM:SS,mmm: twelve characters, a three-digit
\* millisecond field with a value in 0..999, and the floored second in SS.
C8_TimestampShape ==
    pc = "ts_done"
        => /\ Len(ts) = 12
           /\ ts[3] = ":" /\ ts[6] = ":" /\ ts[9] = ","
           /\ \A i \in {1, 2, 4, 5, 7, 8, 10, 11, 12} : IsDigit(ts[i])
           /\ Val(SubSeq(ts, 10, 12)) \in 0..999
           /\ Val(SubSeq(ts, 7, 8)) = (sec \div TicksPerSec) % 60

\* C9: in a successful JSON response of the fallback path, isTranslated is true
\* exactly when the served track came from the translate call.
C9_IsTranslatedMeansTranslated ==
    (Done /\ resp.kind = "json" /\ resp.hasFlags)
        => (resp.isTranslated <=> Returned("translate"))

\* C10: every run of the handler ends with a success response or with an
\* HTTPException of status 404, 429 or 500.
C10_NoRawException ==
    (Done /\ calls # <<>>)
        => \/ resp.kind \in {"json", "srt"}
           \/ resp.kind = "HTTPException" /\ resp.status \in {404, 429, 500}

====
